---- MODULE Spec2Model ----
(***************************************************************************)
(* rowan-diff: structural diff of two syntax trees.                        *)
(*                                                                         *)
(* diff(from, to) projects both trees to comparison nodes, asks the        *)
(* tree_edit_distance crate for an edit script, normalizes that script     *)
(* (generate_edit) and walks it alongside the two trees (generate_diff),   *)
(* filling a TreeDiff: replacements, deletions, insertions.                *)
(***************************************************************************)
EXTENDS Integers, Sequences, FiniteSets

(***************************************************************************)
(* Bounds of the model.                                                    *)
(***************************************************************************)
\* largest number of elements below the roots of `from` and `to` together
MaxElems == 5
\* largest number of edits, nested ones counted, of a raw edit list handed
\* to generate_edit on its own
MaxEdits == 6

Texts == {"a", "b"}
InnerKinds == {"Call"}
RootKinds == {"Block", "Call"}

(***************************************************************************)
(* Syntax elements.  A token has a text and no children; a node has a kind *)
(* and an ordered sequence of child elements.                              *)
(***************************************************************************)
Token(t) == [tok |-> TRUE, lab |-> t, ch |-> <<>>]
Node(k, c) == [tok |-> FALSE, lab |-> k, ch |-> c]

RECURSIVE ForestsOf(_)
\* every sequence of elements with exactly n elements in all
ForestsOf(n) ==
  IF n = 0 THEN {<<>>}
  ELSE UNION { LET rest == ForestsOf(n - k)
                   heads == (IF k = 1 THEN {Token(t) : t \in Texts} ELSE {})
                            \cup {Node(kd, f) : kd \in InnerKinds, f \in ForestsOf(k - 1)}
               IN {<<h>> \o r : h \in heads, r \in rest}
             : k \in 1..n }

\* the trees with n elements below a root of one of the kinds
TreesOf(kinds, n) == {Node(k, f) : k \in kinds, f \in ForestsOf(n)}

RECURSIVE Weight(_)
RECURSIVE SumWeight(_)
\* fn weight() is 1 for every element; a subtree weighs its element count
Weight(e) == 1 + SumWeight(e.ch)
SumWeight(s) == IF s = <<>> THEN 0 ELSE Weight(Head(s)) + SumWeight(Tail(s))

\* TreeNodeKind::eq: nodes by kind, tokens by text, never a node with a token
KindEq(a, b) == a.tok = b.tok /\ a.lab = b.lab

(***************************************************************************)
(* Raw edits (tree_edit_distance::Edit).                                   *)
(***************************************************************************)
EInsert == [op |-> "Insert", sub |-> <<>>]
ERemove == [op |-> "Remove", sub |-> <<>>]
EReplace(s) == [op |-> "Replace", sub |-> s]

RECURSIVE Align(_, _)
\* tree_edit_distance::diff on two sibling sequences: the minimum cost and
\* every script of that cost.  Insert and Remove cost the weight of the
\* subtree; Replace needs equal kinds and costs what the children cost.
Align(l, r) ==
  IF l = <<>> /\ r = <<>> THEN [cost |-> 0, scripts |-> {<<>>}]
  ELSE
    LET rem == IF l = <<>> THEN <<>>
               ELSE LET a == Align(Tail(l), r)
                    IN <<[cost |-> Weight(Head(l)) + a.cost,
                          scripts |-> {<<ERemove>> \o s : s \in a.scripts}]>>
        ins == IF r = <<>> THEN <<>>
               ELSE LET a == Align(l, Tail(r))
                    IN <<[cost |-> Weight(Head(r)) + a.cost,
                          scripts |-> {<<EInsert>> \o s : s \in a.scripts}]>>
        rep == IF l = <<>> \/ r = <<>> \/ ~KindEq(Head(l), Head(r)) THEN <<>>
               ELSE LET n == Align(Head(l).ch, Head(r).ch)
                        a == Align(Tail(l), Tail(r))
                    IN <<[cost |-> n.cost + a.cost,
                          scripts |-> {<<EReplace(x)>> \o s : x \in n.scripts, s \in a.scripts}]>>
        opts == rem \o ins \o rep
        best == CHOOSE c \in {opts[i].cost : i \in DOMAIN opts} :
                  \A i \in DOMAIN opts : c <= opts[i].cost
    IN [cost |-> best,
        scripts |-> UNION {opts[i].scripts : i \in {j \in DOMAIN opts : opts[j].cost = best}}]

\* let (edits, _) = tree_edit_distance::diff(&f, &t): the roots as one-element forests
AlignTrees(f, t) == Align(<<f>>, <<t>>).scripts

(***************************************************************************)
(* Normalized edits (enum TreeEdit).                                       *)
(***************************************************************************)
Same == [op |-> "Same", n |-> 0, sub |-> <<>>]
InsertFirst(i) == [op |-> "InsertFirst", n |-> i, sub |-> <<>>]
Insert(i) == [op |-> "Insert", n |-> i, sub |-> <<>>]
Remove == [op |-> "Remove", n |-> 0, sub |-> <<>>]
Replace(s) == [op |-> "Replace", n |-> 0, sub |-> s]
RemoveInsert == [op |-> "RemoveInsert", n |-> 0, sub |-> <<>>]

\* variant: only an empty nested list collapses
CollapsesEmpty(ledits) == ledits = <<>>

\* ledits.is_empty() || ledits.iter().all(|e| matches!(e, TreeEdit::Same))
Collapses(ledits) == \A i \in DOMAIN ledits : ledits[i].op = "Same"

\* variant: only a Remove followed by an Insert is joined
FusesRemoveFirst(a, b) == a.op = "Remove" /\ b.op = "Insert"

\* the closure of .coalesce(): may a and b be joined into one RemoveInsert
Fuses(a, b) == \/ a.op = "Remove" /\ b.op = "Insert"
               \/ a.op = "Insert" /\ b.op = "Remove"

RECURSIVE CoalesceFrom(_, _)
\* itertools coalesce with `last` the pending element and s what is left:
\* a joined pair stays pending, a refused pair emits its first element
CoalesceFrom(last, s) ==
  IF s = <<>> THEN <<last>>
  ELSE IF Fuses(last, Head(s)) THEN CoalesceFrom(RemoveInsert, Tail(s))
  ELSE <<last>> \o CoalesceFrom(Head(s), Tail(s))

Coalesce(s) == IF s = <<>> THEN <<>> ELSE CoalesceFrom(Head(s), Tail(s))

\* the key of .group_by()
IsInsertKey(e) == e.op = "Insert"

RECURSIVE RunLen(_, _)
\* length of the longest prefix of s whose key is k
RunLen(s, k) ==
  IF s = <<>> \/ IsInsertKey(Head(s)) # k THEN 0 ELSE 1 + RunLen(Tail(s), k)

\* variant: a run of inserts is passed through as it is
FlatGroupEach(isInsert, group) == group

\* variant: a run of inserts becomes Insert(1), its length dropped
FlatGroupOne(isInsert, group) == IF isInsert THEN <<Insert(1)>> ELSE group

\* one group of group_by, flat-mapped: inserts become one Insert(count)
FlatGroup(isInsert, group) == IF isInsert THEN <<Insert(Len(group))>> ELSE group

RECURSIVE GroupInserts(_)
GroupInserts(s) ==
  IF s = <<>> THEN <<>>
  ELSE LET k == IsInsertKey(Head(s))
           m == RunLen(s, k)
       IN FlatGroup(k, SubSeq(s, 1, m)) \o GroupInserts(SubSeq(s, m + 1, Len(s)))

\* variant: a leading Insert is left as it is
FirstRewriteNever(idx, d) == d

\* .enumerate().map(): (0, Insert(i)) => InsertFirst(i), (_, a) => a.
\* idx is the 0-based index of enumerate()
FirstRewrite(idx, d) == IF idx = 0 /\ d.op = "Insert" THEN InsertFirst(d.n) ELSE d

RECURSIVE generate_edit(_)
\* the first .map(): one TreeEdit per raw edit
MapEdit(e) ==
  IF e.op = "Insert" THEN Insert(1)
  ELSE IF e.op = "Remove" THEN Remove
  ELSE LET ledits == generate_edit(e.sub)
       IN IF Collapses(ledits) THEN Same ELSE Replace(ledits)

generate_edit(edits) ==
  LET mapped == [i \in DOMAIN edits |-> MapEdit(edits[i])]
      grouped == GroupInserts(Coalesce(mapped))
  IN [i \in DOMAIN grouped |-> FirstRewrite(i - 1, grouped[i])]

(***************************************************************************)
(* Every raw edit list of bounded length, for generate_edit on its own.    *)
(***************************************************************************)
RECURSIVE RawListsOf(_)
\* the raw edit lists with exactly n edits in all, nested ones counted
RawListsOf(n) ==
  IF n = 0 THEN {<<>>}
  ELSE UNION { LET rest == RawListsOf(n - k)
                   heads == (IF k = 1 THEN {EInsert, ERemove} ELSE {})
                            \cup {EReplace(l) : l \in RawListsOf(k - 1)}
               IN {<<h>> \o r : h \in heads, r \in rest}
             : k \in 1..n }

(***************************************************************************)
(* Element identity: the tree an element belongs to and its path from the  *)
(* root.  NoElem is Option::None.                                          *)
(***************************************************************************)
Id(side, path) == [s |-> side, p |-> path]
NoElem == [s |-> "none", p |-> <<>>]

RECURSIVE At(_, _)
At(tree, path) == IF path = <<>> THEN tree ELSE At(tree.ch[Head(path)], Tail(path))

VARIABLES
  from,          \* the tree diff() is given as `from`
  to,            \* the tree diff() is given as `to`
  raw,           \* the edit script of tree_edit_distance::diff
  pc,            \* where the computation is
  edits,         \* generate_edit(&edits), once computed
  stack,         \* the active calls of generate_diff, innermost first
  replacements,  \* diff.replacements
  deletions,     \* diff.deletions
  insertions,    \* diff.insertions, in insertion order
  calls,         \* every call of diff.insertions.insert() / replacements.insert()
  paired,        \* the (left, right) pairs Replace entries have recursed into
  work,          \* the copy of `from` the diff is applied to
  applied        \* the entries of the diff applied so far

vars == <<from, to, raw, pc, edits, stack, replacements, deletions, insertions,
          calls, paired, work, applied>>

Elem(id) == At(IF id.s = "L" THEN from ELSE to, id.p)

\* children_with_tokens()
Children(id) == [i \in 1..Len(Elem(id).ch) |-> Id(id.s, Append(id.p, i))]

\* into_node() is Some
IsNode(id) == id # NoElem /\ ~Elem(id).tok

\* Iterator::next() and what it leaves
NextOf(s) == IF s = <<>> THEN NoElem ELSE Head(s)
Rest(s) == IF s = <<>> THEN <<>> ELSE Tail(s)

\* (0..i).map(|_| right_childs.next()).flatten(): i elements, fewer at the end
TakeRight(right, i) == SubSeq(right, 1, IF i <= Len(right) THEN i ELSE Len(right))
DropRight(right, i) == SubSeq(right, (IF i <= Len(right) THEN i ELSE Len(right)) + 1, Len(right))

\* variant: the anchor is the first element of the batch
AfterPosRight(f) == [kind |-> "After", el |-> NextOf(f.right)]

\* TreeDiffInsertPos::After(current_left) of the frame
AfterPos(f) == [kind |-> "After", el |-> f.cur]
\* variant: the batch is anchored after the parent
AsFirstChildPosAfter(f) == [kind |-> "After", el |-> f.parent]

\* TreeDiffInsertPos::AsFirstChild(left_parent) of the frame
AsFirstChildPos(f) == [kind |-> "AsFirstChild", el |-> f.parent]

\* FxHashMap::insert: the key's old value is replaced
HashInsert(m, k, v) == {x \in m : x.k # k} \cup {[k |-> k, v |-> v]}

\* IndexMap::insert: a new key goes last, an old key keeps its place
IndexInsert(m, pos, batch) ==
  IF \E i \in DOMAIN m : m[i].pos = pos
  THEN [i \in DOMAIN m |-> IF m[i].pos = pos THEN [pos |-> pos, elems |-> batch] ELSE m[i]]
  ELSE Append(m, [pos |-> pos, elems |-> batch])

\* variant: a deletion is put first
PushDeletionFront(d, e) == <<e>> \o d

\* deletions.push()
PushDeletion(d, e) == Append(d, e)

\* variant: the right node is handed down as the parent
ChildFrameRightParent(sub, l, r) ==
  [edits |-> sub, parent |-> r, left |-> Children(l), right |-> Children(r), cur |-> NoElem]

\* the arguments of the recursive generate_diff call of the Replace arm
ChildFrame(sub, l, r) ==
  [edits |-> sub, parent |-> l, left |-> Children(l), right |-> Children(r), cur |-> NoElem]

\* the arguments of the root generate_diff call of diff()
RootFrame(e) ==
  [edits |-> e, parent |-> NoElem, left |-> <<Id("L", <<>>)>>,
   right |-> <<Id("R", <<>>)>>, cur |-> NoElem]

(***************************************************************************)
(* The copy of `from` a diff is applied to.  Every slot remembers which    *)
(* element of `from` stood there, so that an anchor names a place of the   *)
(* original tree whatever has been applied already.                        *)
(***************************************************************************)
RECURSIVE SlotsOf(_, _)
SlotsOf(e, id) ==
  [id |-> id, tok |-> e.tok, lab |-> e.lab,
   ch |-> [i \in DOMAIN e.ch |-> SlotsOf(e.ch[i], Id(id.s, Append(id.p, i)))]]

RECURSIVE Fresh(_)
\* an element of `to` placed in the copy
Fresh(e) == [id |-> NoElem, tok |-> e.tok, lab |-> e.lab,
             ch |-> [i \in DOMAIN e.ch |-> Fresh(e.ch[i])]]

RECURSIVE Content(_)
\* structure, kinds and token texts of the copy
Content(s) == [tok |-> s.tok, lab |-> s.lab, ch |-> [i \in DOMAIN s.ch |-> Content(s.ch[i])]]

RECURSIVE Flatten(_)
Flatten(ss) == IF ss = <<>> THEN <<>> ELSE Head(ss) \o Flatten(Tail(ss))

RECURSIVE Substitute(_, _, _)
Substitute(s, k, new) ==
  IF s.id = k THEN [new EXCEPT !.id = k]
  ELSE [s EXCEPT !.ch = [i \in DOMAIN s.ch |-> Substitute(s.ch[i], k, new)]]

RECURSIVE Delete(_, _)
Delete(s, e) ==
  [s EXCEPT !.ch = Flatten([i \in DOMAIN s.ch |->
                     IF s.ch[i].id = e THEN <<>> ELSE <<Delete(s.ch[i], e)>>])]

RECURSIVE PlaceAfter(_, _, _)
PlaceAfter(s, e, batch) ==
  [s EXCEPT !.ch = Flatten([i \in DOMAIN s.ch |->
                     <<PlaceAfter(s.ch[i], e, batch)>>
                     \o (IF s.ch[i].id = e THEN batch ELSE <<>>)])]

RECURSIVE PlaceFirst(_, _, _)
PlaceFirst(s, e, batch) ==
  LET c == [i \in DOMAIN s.ch |-> PlaceFirst(s.ch[i], e, batch)]
  IN [s EXCEPT !.ch = IF s.id = e THEN batch \o c ELSE c]

\* the entries of the finished diff, one per replacement, deletion and batch
Entries ==
  {[t |-> "replace", el |-> x.k, new |-> <<x.v>>] : x \in replacements}
  \cup {[t |-> "delete", el |-> deletions[i], new |-> <<>>] : i \in DOMAIN deletions}
  \cup {[t |-> insertions[i].pos.kind, el |-> insertions[i].pos.el,
         new |-> insertions[i].elems] : i \in DOMAIN insertions}

ApplyEntry(w, x) ==
  LET batch == [i \in DOMAIN x.new |-> Fresh(Elem(x.new[i]))]
  IN CASE x.t = "replace" -> Substitute(w, x.el, batch[1])
       [] x.t = "delete" -> Delete(w, x.el)
       [] x.t = "After" -> PlaceAfter(w, x.el, batch)
       [] OTHER -> PlaceFirst(w, x.el, batch)

(***************************************************************************)
(* Initial state: two trees and a script the alignment returns for them.   *)
(***************************************************************************)
Fields ==
  /\ pc = "start"
  /\ edits = <<>>
  /\ stack = <<>>
  /\ replacements = {}
  /\ deletions = <<>>
  /\ insertions = <<>>
  /\ calls = <<>>
  /\ paired = {}
  /\ applied = {}
  /\ work = SlotsOf(from, Id("L", <<>>))

Init == /\ \E l \in 0..MaxElems : \E r \in 0..(MaxElems - l) :
             /\ from \in TreesOf({"Block"}, l)
             /\ to \in TreesOf(RootKinds, r)
        /\ raw \in AlignTrees(from, to)
        /\ Fields

Top == Head(stack)
Edit == Head(Top.edits)
Walking(op) == pc = "walk" /\ stack # <<>> /\ Top.edits # <<>> /\ Edit.op = op

\* the frame after its first edit is done
Step(f, cur, left, right) ==
  [f EXCEPT !.edits = Tail(f.edits), !.cur = cur, !.left = left, !.right = right]

Panic == /\ pc' = "panic"
         /\ UNCHANGED <<stack, replacements, deletions, insertions, calls, paired>>

\* diff(): normalize the script and make the root call
Diff ==
  /\ pc = "start"
  /\ edits' = generate_edit(raw)
  /\ stack' = <<RootFrame(edits')>>
  /\ pc' = "walk"
  /\ UNCHANGED <<from, to, raw, replacements, deletions, insertions, calls, paired,
                 work, applied>>

RemoveInsertArm ==
  /\ Walking("RemoveInsert")
  /\ LET l == NextOf(Top.left)
         r == NextOf(Top.right)
     IN IF l = NoElem \/ r = NoElem THEN Panic
        ELSE /\ replacements' = HashInsert(replacements, l, r)
             /\ calls' = Append(calls, [kind |-> "Replaced", el |-> l])
             /\ stack' = <<Step(Top, l, Rest(Top.left), Rest(Top.right))>> \o Tail(stack)
             /\ UNCHANGED <<pc, deletions, insertions, paired>>
  /\ UNCHANGED <<from, to, raw, edits, work, applied>>

InsertArm ==
  /\ Walking("Insert")
  /\ IF Top.cur = NoElem THEN Panic
     ELSE /\ insertions' = IndexInsert(insertions, AfterPos(Top), TakeRight(Top.right, Edit.n))
          /\ calls' = Append(calls, AfterPos(Top))
          /\ stack' = <<Step(Top, Top.cur, Top.left, DropRight(Top.right, Edit.n))>>
                      \o Tail(stack)
          /\ UNCHANGED <<pc, replacements, deletions, paired>>
  /\ UNCHANGED <<from, to, raw, edits, work, applied>>

InsertFirstArm ==
  /\ Walking("InsertFirst")
  /\ IF Top.parent = NoElem THEN Panic
     ELSE /\ insertions' = IndexInsert(insertions, AsFirstChildPos(Top),
                                       TakeRight(Top.right, Edit.n))
          /\ calls' = Append(calls, AsFirstChildPos(Top))
          /\ stack' = <<Step(Top, Top.cur, Top.left, DropRight(Top.right, Edit.n))>>
                      \o Tail(stack)
          /\ UNCHANGED <<pc, replacements, deletions, paired>>
  /\ UNCHANGED <<from, to, raw, edits, work, applied>>

RemoveArm ==
  /\ Walking("Remove")
  /\ LET l == NextOf(Top.left)
     IN IF l = NoElem THEN Panic
        ELSE /\ deletions' = PushDeletion(deletions, l)
             /\ stack' = <<Step(Top, l, Rest(Top.left), Top.right)>> \o Tail(stack)
             /\ UNCHANGED <<pc, replacements, insertions, calls, paired>>
  /\ UNCHANGED <<from, to, raw, edits, work, applied>>

ReplaceArm ==
  /\ Walking("Replace")
  /\ LET l == NextOf(Top.left)
         r == NextOf(Top.right)
     IN IF ~IsNode(l) \/ ~IsNode(r) THEN Panic
        ELSE /\ stack' = <<ChildFrame(Edit.sub, l, r),
                           Step(Top, l, Rest(Top.left), Rest(Top.right))>> \o Tail(stack)
             /\ paired' = paired \cup {<<l, r>>}
             /\ UNCHANGED <<pc, replacements, deletions, insertions, calls>>
  /\ UNCHANGED <<from, to, raw, edits, work, applied>>

SameArm ==
  /\ Walking("Same")
  /\ stack' = <<Step(Top, NextOf(Top.left), Rest(Top.left), Rest(Top.right))>> \o Tail(stack)
  /\ UNCHANGED <<from, to, raw, pc, edits, replacements, deletions, insertions, calls,
                 paired, work, applied>>

\* the for loop of a generate_diff call ends; the root call returns the diff
Return ==
  /\ pc = "walk" /\ stack # <<>> /\ Top.edits = <<>>
  /\ stack' = Tail(stack)
  /\ pc' = IF Tail(stack) = <<>> THEN "done" ELSE "walk"
  /\ UNCHANGED <<from, to, raw, edits, replacements, deletions, insertions, calls,
                 paired, work, applied>>

\* the caller applies one more entry of the diff to its copy of `from`
Apply ==
  /\ pc = "done"
  /\ \E x \in Entries \ applied :
       /\ work' = ApplyEntry(work, x)
       /\ applied' = applied \cup {x}
  /\ UNCHANGED <<from, to, raw, pc, edits, stack, replacements, deletions, insertions,
                 calls, paired>>

Next == \/ Diff
        \/ RemoveInsertArm
        \/ InsertArm
        \/ InsertFirstArm
        \/ RemoveArm
        \/ ReplaceArm
        \/ SameArm
        \/ Return
        \/ Apply

Spec == Init /\ [][Next]_vars

(***************************************************************************)
(* generate_edit on its own, over every raw edit list.                     *)
(***************************************************************************)
InitEdit == /\ from = Node("Block", <<>>)
            /\ to = Node("Block", <<>>)
            /\ \E n \in 0..MaxEdits : raw \in RawListsOf(n)
            /\ Fields

GenerateEdit ==
  /\ pc = "start"
  /\ edits' = generate_edit(raw)
  /\ pc' = "normalized"
  /\ UNCHANGED <<from, to, raw, stack, replacements, deletions, insertions, calls,
                 paired, work, applied>>

NextEdit == GenerateEdit

SpecEdit == InitEdit /\ [][NextEdit]_vars

(***************************************************************************)
(* Vocabulary of the properties.                                           *)
(***************************************************************************)
Done == pc = "done"
\* diff() has returned and nothing of the diff has been applied yet
Returned == Done /\ applied = {}
AllApplied == Done /\ applied = Entries
Keys == {x.k : x \in replacements}
Values == {x.v : x \in replacements}
Deleted == {deletions[i] : i \in DOMAIN deletions}
Positions == {insertions[i].pos : i \in DOMAIN insertions}

\* x is a child of the element l
ChildOf(x, l) ==
  x.s = l.s /\ Len(x.p) = Len(l.p) + 1 /\ SubSeq(x.p, 1, Len(l.p)) = l.p

\* p comes before q in document order (a parent before its descendants)
DocLess(p, q) ==
  \/ Len(p) < Len(q) /\ SubSeq(q, 1, Len(p)) = p
  \/ \E i \in 1..Len(p) : /\ i <= Len(q)
                          /\ p[i] < q[i]
                          /\ \A j \in 1..(i - 1) : p[j] = q[j]

RECURSIVE ElemPaths(_)
\* the paths of the elements of a tree
ElemPaths(t) == {<<>>} \cup UNION {{<<i>> \o q : q \in ElemPaths(t.ch[i])} : i \in DOMAIN t.ch}

RECURSIVE NodePaths(_)
\* the paths of the nodes (not tokens) of a tree
NodePaths(t) ==
  IF t.tok THEN {}
  ELSE {<<>>} \cup UNION {{<<i>> \o q : q \in NodePaths(t.ch[i])} : i \in DOMAIN t.ch}

RECURSIVE PutChildren(_, _, _)
\* the tree with the children of the node at p replaced by c
PutChildren(t, p, c) ==
  IF p = <<>> THEN [t EXCEPT !.ch = c]
  ELSE [t EXCEPT !.ch[Head(p)] = PutChildren(t.ch[Head(p)], Tail(p), c)]

BothNodes(p) == p \in NodePaths(from) /\ p \in NodePaths(to)

\* `to` is `from` with k new elements put after the first i children of p
InsertedAt(p, i, k) ==
  /\ BothNodes(p)
  /\ LET fc == At(from, p).ch
         tc == At(to, p).ch
     IN /\ i <= Len(fc)
        /\ Len(tc) = Len(fc) + k
        /\ to = PutChildren(from, p, SubSeq(fc, 1, i) \o SubSeq(tc, i + 1, i + k)
                                     \o SubSeq(fc, i + 1, Len(fc)))

\* none of the k new elements compares equal to a child of p in `from`
InsertedUnlike(p, i, k) ==
  \A j \in 1..k : \A m \in DOMAIN At(from, p).ch :
    ~KindEq(At(to, p).ch[i + j], At(from, p).ch[m])

\* the one batch such an insertion should give
BatchAt(p, i, k) ==
  [pos |-> IF i = 0 THEN [kind |-> "AsFirstChild", el |-> Id("L", p)]
           ELSE [kind |-> "After", el |-> Id("L", Append(p, i))],
   elems |-> [j \in 1..k |-> Id("R", Append(p, i + j))]]

\* the nodes of `from` that are nodes of `to` as well
SharedNodes == NodePaths(from) \cap NodePaths(to)

InsertCases ==
  UNION {{[p |-> p, i |-> i, k |-> Len(At(to, p).ch) - Len(At(from, p).ch)] :
            i \in {i \in 0..Len(At(from, p).ch) :
                     InsertedAt(p, i, Len(At(to, p).ch) - Len(At(from, p).ch))}} :
         p \in {q \in SharedNodes : Len(At(to, q).ch) > Len(At(from, q).ch)}}

\* `to` is `from` with child i of p exchanged for another element
SwappedAt(p, i) ==
  /\ BothNodes(p)
  /\ LET fc == At(from, p).ch
         tc == At(to, p).ch
     IN /\ i \in DOMAIN fc
        /\ Len(tc) = Len(fc)
        /\ tc[i] # fc[i]
        /\ to = PutChildren(from, p, [fc EXCEPT ![i] = tc[i]])

\* the two exchanged elements compare unequal to each other and to every sibling
SwappedUnlike(p, i) ==
  LET fc == At(from, p).ch
      tc == At(to, p).ch
  IN \A m \in DOMAIN fc : ~KindEq(tc[i], fc[m]) /\ ~KindEq(fc[i], tc[m])

SwapCases ==
  UNION {{[p |-> p, i |-> i] : i \in {i \in DOMAIN At(from, p).ch : SwappedAt(p, i)}} :
         p \in {q \in SharedNodes : Len(At(to, q).ch) = Len(At(from, q).ch)}}

SwapRecorded(c) ==
  /\ replacements = {[k |-> Id("L", Append(c.p, c.i)), v |-> Id("R", Append(c.p, c.i))]}
  /\ deletions = <<>>
  /\ insertions = <<>>

(***************************************************************************)
(* C1.  Round trip: once every entry of diff(from, to) has been applied to *)
(* the copy of `from`, in whatever order, the copy has the structure,      *)
(* kinds and token texts of `to`.                                          *)
(***************************************************************************)
RoundTrip == AllApplied => Content(work) = to

\* a diff with a deletion, a replacement and a batch anchored after the
\* replaced element, all applied
RoundTripWitness ==
  /\ AllApplied
  /\ deletions # <<>>
  /\ \E x \in Positions : x.kind = "After" /\ x.el \in Keys

(***************************************************************************)
(* C2.  No-op: diff(A, A) records nothing, because the root pair of the    *)
(* script normalizes to a single Same.                                     *)
(***************************************************************************)
NoOp ==
  from = to => /\ replacements = {} /\ deletions = <<>> /\ insertions = <<>>
               /\ pc # "panic"
               /\ pc # "start" => edits = <<Same>>

\* diff(A, A) has returned for a tree with a node that has children
NoOpWitness ==
  from = to /\ Done /\ \E i \in DOMAIN from.ch : from.ch[i].ch # <<>>

(***************************************************************************)
(* C3.  Totality: no unwrap() of generate_diff fails, and whenever an      *)
(* entry is about to be processed the elements it needs are there: a left  *)
(* and a right element as the entry consumes them, a cursor for Insert, a  *)
(* parent for InsertFirst, two nodes for Replace.                          *)
(***************************************************************************)
NeedsMet ==
  LET e == Edit
      f == Top
  IN /\ e.op \in {"Same", "Remove", "Replace", "RemoveInsert"} => f.left # <<>>
     /\ e.op \in {"Same", "Replace", "RemoveInsert"} => f.right # <<>>
     /\ e.op \in {"Insert", "InsertFirst"} => e.n >= 1 /\ Len(f.right) >= e.n
     /\ e.op = "Insert" => f.cur # NoElem
     /\ e.op = "InsertFirst" => f.parent # NoElem /\ Len(stack) > 1
     /\ e.op = "Replace" => IsNode(NextOf(f.left)) /\ IsNode(NextOf(f.right))

Totality ==
  /\ pc # "panic"
  /\ (pc = "walk" /\ stack # <<>> /\ Top.edits # <<>>) => NeedsMet

\* a finished diff that went through InsertFirst, Insert and Replace
TotalityWitness ==
  /\ Done
  /\ paired # {}
  /\ \E x, y \in Positions : x.kind = "After" /\ y.kind = "AsFirstChild"

(***************************************************************************)
(* C4.  Anchor stability: every key of insertions is After(e) or           *)
(* AsFirstChild(e) with e an element of `from`.                            *)
(***************************************************************************)
AnchorStability ==
  \A x \in Positions :
    /\ x.kind \in {"After", "AsFirstChild"}
    /\ x.el.s = "L"
    /\ x.el.p \in ElemPaths(from)
    /\ x.kind = "AsFirstChild" => x.el.p \in NodePaths(from)

AnchorStabilityWitness ==
  Done /\ \E x, y \in Positions : x.kind = "After" /\ y.kind = "AsFirstChild" /\ x.el # y.el

(***************************************************************************)
(* C5.  Insert coalescing.  As stated: whenever `to` is `from` plus k      *)
(* consecutive new siblings at one position, the diff is one batch at that *)
(* position and nothing else.                                              *)
(***************************************************************************)
InsertCoalescingAsStated ==
  (Returned /\ InsertCases # {}) =>
     /\ replacements = {} /\ deletions = <<>>
     /\ \E c \in InsertCases : insertions = <<BatchAt(c.p, c.i, c.k)>>

\* C5 as amended: the same, when none of the new elements compares equal
\* (same text for tokens, same kind for nodes) to a sibling it is put among
InsertCoalescing ==
  Returned => \A c \in InsertCases :
            InsertedUnlike(c.p, c.i, c.k) =>
              /\ replacements = {} /\ deletions = <<>>
              /\ insertions = <<BatchAt(c.p, c.i, c.k)>>

\* two new siblings put after an element that stays
InsertCoalescingWitness ==
  Returned /\ \E c \in InsertCases : c.k >= 2 /\ c.i >= 1 /\ InsertedUnlike(c.p, c.i, c.k)

(***************************************************************************)
(* C6.  Remove/Insert fusion.  As stated: whenever `to` is `from` with one *)
(* element exchanged for another at the same position, the diff is one     *)
(* replacement of the one by the other and nothing else.                   *)
(***************************************************************************)
FusionAsStated ==
  (Returned /\ SwapCases # {}) => \E c \in SwapCases : SwapRecorded(c)

\* C6 as amended: the same, when the two elements compare unequal to each
\* other and to every sibling at that position
Fusion ==
  Returned => \A c \in SwapCases : SwappedUnlike(c.p, c.i) => SwapRecorded(c)

\* such an exchange among several children, the script emitting Insert first
FusionWitness ==
  /\ Returned
  /\ \E c \in SwapCases :
       /\ c.p = <<>> /\ SwappedUnlike(c.p, c.i) /\ Len(from.ch) >= 2
       /\ raw[1].sub[c.i].op = "Insert"

(***************************************************************************)
(* C7.  Recursion instead of wholesale replacement: the two nodes of a     *)
(* Replace entry are nodes of one kind with different content and are      *)
(* never recorded themselves; the recursive call has the left node as      *)
(* parent and the children of the two as sequences, and all it records     *)
(* are children of the pair, anchored at children of the left node or at   *)
(* the left node as AsFirstChild.                                          *)
(***************************************************************************)
PairedKept ==
  \A pr \in paired :
    /\ IsNode(pr[1]) /\ IsNode(pr[2])
    /\ pr[1].s = "L" /\ pr[2].s = "R"
    /\ Elem(pr[1]).lab = Elem(pr[2]).lab
    /\ Elem(pr[1]) # Elem(pr[2])
    /\ pr[1] \notin Keys \cup Deleted
    /\ pr[2] \notin Values

RecursionRecords ==
  (pc = "walk" /\ stack # <<>> /\ Top.parent # NoElem) =>
    \E pr \in paired :
      /\ pr[1] = Top.parent
      /\ \A x \in replacements' \ replacements : ChildOf(x.k, pr[1]) /\ ChildOf(x.v, pr[2])
      /\ \A i \in DOMAIN deletions' : i > Len(deletions) => ChildOf(deletions'[i], pr[1])
      /\ \A i \in DOMAIN insertions' :
           (i > Len(insertions) \/ insertions'[i] # insertions[i]) =>
             /\ \/ insertions'[i].pos = [kind |-> "AsFirstChild", el |-> pr[1]]
                \/ insertions'[i].pos.kind = "After" /\ ChildOf(insertions'[i].pos.el, pr[1])
             /\ \A j \in DOMAIN insertions'[i].elems : ChildOf(insertions'[i].elems[j], pr[2])

RecursionEnters ==
  (pc = "walk" /\ Len(stack') > Len(stack)) =>
    LET l == NextOf(Top.left)
        r == NextOf(Top.right)
    IN /\ Head(stack').parent = l
       /\ Head(stack').left = Children(l)
       /\ Head(stack').right = Children(r)
       /\ Head(stack').cur = NoElem
       /\ paired' = paired \cup {<<l, r>>}
       /\ UNCHANGED <<replacements, deletions, insertions>>

ReplaceRecurses == []PairedKept /\ [][RecursionRecords /\ RecursionEnters]_vars

\* a finished diff whose recursion into a pair recorded a replacement, a
\* deletion and a batch
ReplaceRecursesWitness ==
  /\ Done
  /\ \E pr \in paired :
       /\ \E k \in Keys : ChildOf(k, pr[1])
       /\ \E e \in Deleted : ChildOf(e, pr[1])
       /\ \E x \in Positions : x.el = pr[1] \/ ChildOf(x.el, pr[1])

(***************************************************************************)
(* C8.  Deletion order: deletions holds elements of `from` in strictly     *)
(* increasing document order, across recursion levels.                     *)
(***************************************************************************)
DeletionOrder ==
  \A i, j \in DOMAIN deletions :
    /\ deletions[i].s = "L"
    /\ i < j => DocLess(deletions[i].p, deletions[j].p)

\* an outer deletion, then one inside a recursion, then an outer one again
DeletionOrderWitness ==
  /\ Done
  /\ \E i \in DOMAIN deletions :
       /\ i + 2 \in DOMAIN deletions
       /\ Len(deletions[i].p) = 1
       /\ Len(deletions[i + 1].p) = 2
       /\ Len(deletions[i + 2].p) = 1

(***************************************************************************)
(* C9.  Lock-step consumption: at every nesting level the normalized list  *)
(* consumes as many left and as many right elements as the raw list.       *)
(***************************************************************************)
RECURSIVE Count(_, _)
\* how many entries of s have their op in ops
Count(s, ops) ==
  IF s = <<>> THEN 0 ELSE (IF Head(s).op \in ops THEN 1 ELSE 0) + Count(Tail(s), ops)

RECURSIVE SumN(_)
\* the sum of k over the Insert(k) and InsertFirst(k) of s
SumN(s) == IF s = <<>> THEN 0 ELSE Head(s).n + SumN(Tail(s))

RawLeft(r) == Count(r, {"Remove", "Replace"})
RawRight(r) == Count(r, {"Insert", "Replace"})
LeftUse(e) == Count(e, {"Same", "Remove", "Replace", "RemoveInsert"})
RightUse(e) == Count(e, {"Same", "Replace", "RemoveInsert"}) + SumN(e)

RECURSIVE Pick(_, _)
\* the entries of s with their op in ops, in order
Pick(s, ops) ==
  IF s = <<>> THEN <<>>
  ELSE (IF Head(s).op \in ops THEN <<Head(s)>> ELSE <<>>) \o Pick(Tail(s), ops)

RECURSIVE LockStep(_, _)
\* r a raw list and e the normalized list the code made of it
LockStep(r, e) ==
  /\ LeftUse(e) = RawLeft(r)
  /\ RightUse(e) = RawRight(r)
  /\ LET rr == Pick(r, {"Replace"})
         ee == Pick(e, {"Same", "Replace"})
     IN /\ Len(rr) = Len(ee)
        /\ \A i \in DOMAIN rr :
             IF i \in DOMAIN ee /\ ee[i].op = "Replace"
             THEN LockStep(rr[i].sub, ee[i].sub)
             ELSE LockStep(rr[i].sub, generate_edit(rr[i].sub))

LockStepKept == pc = "normalized" => LockStep(raw, edits)

\* a list where a pair was fused and a leading run of inserts coalesced and rewritten
LockStepKeptWitness ==
  /\ pc = "normalized"
  /\ \E i, j \in DOMAIN edits :
       edits[i].op = "RemoveInsert" /\ edits[j].op = "InsertFirst" /\ edits[j].n >= 2

(***************************************************************************)
(* C10.  No key is written twice: the calls of insertions.insert() have    *)
(* pairwise different keys, so do those of replacements.insert(), and so   *)
(* each call added an entry and none replaced one.                         *)
(***************************************************************************)
NoKeyTwice ==
  /\ \A i, j \in DOMAIN calls : i < j => calls[i] # calls[j]
  /\ Len(insertions) = Cardinality({i \in DOMAIN calls : calls[i].kind # "Replaced"})
  /\ Cardinality(replacements) = Cardinality({i \in DOMAIN calls : calls[i].kind = "Replaced"})

\* one element anchoring two batches: as AsFirstChild in a recursion, as After outside
NoKeyTwiceWitness ==
  /\ Done
  /\ \E x, y \in Positions : x.kind = "After" /\ y.kind = "AsFirstChild" /\ x.el = y.el
====
